---- MODULE Spec2Model ----
(***************************************************************************)
(* Model of the release providers of pkg/providers: the GitHub provider    *)
(* (github.go) and the generic version-URL provider (generic.go).          *)
(*                                                                         *)
(* Strings are sequences of atoms.  An atom is an indivisible piece of     *)
(* text: the separator "/", the placeholder "{version}", a blank " ", a    *)
(* line feed "\n", or a word holding none of these.  The empty string is   *)
(* <<>>, len(s) is Len(s), and two strings are equal when their atom       *)
(* sequences are.  A Go pointer is a sequence of length 0 (nil) or 1.      *)
(***************************************************************************)
EXTENDS Integers, Sequences, FiniteSets, TLC

VARIABLES
    path,       \* u.Path of the URL handed to newGitHub
    env,        \* the process environment read by newGitHub
    gh,         \* the *gitHub provider: <<>> before construction, else <<g>>
    tmpl,       \* the download-URL template handed to newGeneric
    vurl,       \* the version-check URL handed to newGeneric
    gen,        \* the *generic provider: <<>> before construction, else <<g>>
    relAssets,  \* getCandidates' githubAssets argument
    userAsset,  \* getCandidates' userAsset argument
    candidates, \* getCandidates' result: <<>> before the call, else <<list>>
    httpIn,     \* the version endpoint's answer, where one answer is explored
    last        \* what the most recent call did and returned

vars == <<path, env, gh, tmpl, vurl, gen, relAssets, userAsset, candidates, httpIn, last>>

----------------------------------------------------------------------------
(* Bounds of the explored inputs.                                          *)

MaxSegs == 6
MaxAssets == 3
MaxBodyLen == 3
MaxTemplateLen == 2

(* http.StatusNotFound.                                                    *)
StatusNotFound == 404

(* A status that go-github's CheckResponse takes for a success.            *)
Is2xx(st) == st >= 200 /\ st <= 299

----------------------------------------------------------------------------
(* Strings.                                                                *)

Empty == <<>>
Str(a) == <<a>>

RECURSIVE SeqsUpTo(_, _)
SeqsUpTo(S, n) ==
    IF n = 0 THEN {<<>>}
    ELSE LET shorter == SeqsUpTo(S, n - 1)
         IN  shorter \cup {Append(s, a) : s \in shorter, a \in S}

RECURSIVE Concat(_)
Concat(ss) == IF ss = <<>> THEN <<>> ELSE Head(ss) \o Concat(Tail(ss))

Contains(s, a) == \E i \in 1..Len(s) : s[i] = a

IndexOf(s, a) == CHOOSE i \in 1..Len(s) : s[i] = a /\ \A j \in 1..(i - 1) : s[j] # a

(* strings.Split(s, "/"): the pieces between separators; a string with no  *)
(* separator, the empty one included, is one piece.                        *)
RECURSIVE Split(_)
Split(s) ==
    IF ~Contains(s, "/") THEN <<s>>
    ELSE LET i == IndexOf(s, "/")
         IN  <<SubSeq(s, 1, i - 1)>> \o Split(SubSeq(s, i + 1, Len(s)))

----------------------------------------------------------------------------
(* Errors and call records.                                                *)

NoErr == [kind |-> "nil", msg |-> <<>>, status |-> 0]
Err(k, m) == [kind |-> k, msg |-> m, status |-> 0]
APIErr(st) == [kind |-> "api", msg |-> <<>>, status |-> st]

NoOpts == [All |-> FALSE, PackagePath |-> <<>>, SkipPatchCheck |-> FALSE,
           PackageName |-> <<>>, Version |-> <<>>]

NoFilterOpts == [SkipScoring |-> FALSE, PackagePath |-> <<>>, SkipPathCheck |-> FALSE,
                 PackageName |-> <<>>]

(* The answer of one GitHub API call: kind "conn" is a failure with no     *)
(* HTTP response at all (err # nil, resp = nil); kind "http" carries the   *)
(* status and, on 200, the release's tag name and assets.                  *)
NoAPI == [kind |-> "none", status |-> 0, tag |-> <<>>, html |-> <<>>, assets |-> <<>>]

(* The answer of one GET of the generic provider's http.Client: kind       *)
(* "conn" is a transport error; kind "http" carries status and body, and   *)
(* readOK tells whether io.ReadAll could read the body.                    *)
NoHTTP == [kind |-> "none", status |-> 0, body |-> <<>>, readOK |-> TRUE]

(* One call as the caller and the collaborators saw it.  outcome is        *)
(* "file" (a *File and nil error), "value" (a non-File result and nil      *)
(* error), "error" (nil result and an error) or "panic" (the goroutine     *)
(* crashed: nothing is returned).                                          *)
NoCall ==
    [op             |-> "none",
     opts           |-> NoOpts,       \* the caller's FetchOpts at the call
     optsAfter      |-> NoOpts,       \* the caller's FetchOpts at the return
     api            |-> NoAPI,        \* the GitHub API's answer
     http           |-> NoHTTP,       \* the version endpoint's answer
     lookup         |-> "none",       \* "byTag" | "latest" | "none"
     lookupTag      |-> <<>>,         \* the tag handed to GetReleaseByTag
     outcome        |-> "none",
     err            |-> NoErr,
     file           |-> <<>>,         \* <<File>> when outcome = "file"
     version        |-> <<>>,         \* GetLatestVersion's first result
     url            |-> <<>>,         \* GetLatestVersion's second result
     id             |-> <<>>,         \* GetID's result
     warned         |-> FALSE,        \* log.Warnf was called
     filterCalled   |-> FALSE,        \* FilterAssets was called
     filterOpts     |-> NoFilterOpts, \* the FilterOpts handed to NewFilter
     filterRepo     |-> <<>>,         \* FilterAssets' first argument
     cands          |-> <<>>,         \* FilterAssets' second argument
     downloadCalled |-> FALSE,        \* ProcessURL was called
     downloadURL    |-> <<>>,         \* the FilteredAsset's URL
     headers        |-> {}]           \* the FilteredAsset's ExtraHeaders

----------------------------------------------------------------------------
(* github.go: construction.                                                *)

(* The tag of a release or download URL: the 6th path element.             *)
parseTag(splitedPath) ==
    IF Len(splitedPath) > 5 /\ splitedPath[4] = Str("releases")
    THEN splitedPath[6]
    ELSE Empty

(* parseAsset without the test for "download".                             *)
parseAssetAnyKind(splitedPath) ==
    IF Len(splitedPath) > 5 /\ splitedPath[4] = Str("releases")
    THEN IF Len(splitedPath) > 6 THEN splitedPath[7] ELSE Empty
    ELSE Empty

(* The asset name of a download URL: the 7th path element.                 *)
parseAsset(splitedPath) ==
    IF Len(splitedPath) > 5 /\ splitedPath[4] = Str("releases")
    THEN IF Len(splitedPath) > 6 /\ splitedPath[5] = Str("download")
         THEN splitedPath[7]
         ELSE Empty
    ELSE Empty

(* resolveToken preferring the enterprise token when GHES is configured.   *)
resolveTokenGHES(e) ==
    IF Len(e.GHES_BASE_URL) > 0 /\ Len(e.GHES_UPLOAD_URL) > 0 /\ Len(e.GHES_AUTH_TOKEN) > 0
    THEN e.GHES_AUTH_TOKEN
    ELSE IF Len(e.GITHUB_AUTH_TOKEN) = 0 THEN e.GITHUB_TOKEN ELSE e.GITHUB_AUTH_TOKEN

(* GITHUB_AUTH_TOKEN, else GITHUB_TOKEN.                                   *)
resolveToken(e) ==
    IF Len(e.GITHUB_AUTH_TOKEN) = 0 THEN e.GITHUB_TOKEN ELSE e.GITHUB_AUTH_TOKEN

isGHES(e) ==
    Len(e.GHES_BASE_URL) > 0 /\ Len(e.GHES_UPLOAD_URL) > 0 /\ Len(e.GHES_AUTH_TOKEN) > 0

(* The API client: which server it talks to and the OAuth2 token of its    *)
(* transport (<<>>: tc is nil, the client is anonymous).                   *)
newClient(e) ==
    IF isGHES(e)
    THEN [kind |-> "enterprise", auth |-> e.GHES_AUTH_TOKEN]
    ELSE [kind |-> "public", auth |-> resolveToken(e)]

(* newGitHub(u): ghesOK is whether github.NewEnterpriseClient accepted the *)
(* GHES URLs.  The result is (Provider, error).                            *)
newGitHub(p, e, ghesOK) ==
    LET splitedPath == Split(p) IN
    IF Len(splitedPath) < 3
    THEN [prov |-> <<>>,
          err  |-> Err("parse", <<"error parsing Github URL ">> \o p
                                \o <<", can't find owner and repo">>)]
    ELSE IF isGHES(e) /\ ~ghesOK
    THEN [prov |-> <<>>, err |-> Err("ghes", <<"error initializing GHES client">>)]
    ELSE [prov |-> <<[url    |-> p,
                      client |-> newClient(e),
                      owner  |-> splitedPath[2],
                      repo   |-> splitedPath[3],
                      tag    |-> parseTag(splitedPath),
                      asset  |-> parseAsset(splitedPath),
                      token  |-> resolveToken(e)]>>,
          err  |-> NoErr]

----------------------------------------------------------------------------
(* github.go: getCandidates.                                               *)

Candidate(a) == [Name |-> a.name, URL |-> a.url]

(* The loop of getCandidates over the assets not yet visited: acc is the   *)
(* candidates slice so far.  An asset named userAsset replaces the slice   *)
(* and ends the loop.                                                      *)
RECURSIVE candidatesLoop(_, _, _)
candidatesLoop(rest, asset, acc) ==
    IF rest = <<>> THEN [candidates |-> acc, foundUserAsset |-> FALSE]
    ELSE LET a == Head(rest) IN
         IF asset # Empty /\ a.name = asset
         THEN [candidates |-> <<Candidate(a)>>, foundUserAsset |-> TRUE]
         ELSE candidatesLoop(Tail(rest), asset, Append(acc, Candidate(a)))

(* getCandidates whose loop lacks the break: the assets after the match    *)
(* are appended to the one-element slice.                                  *)
RECURSIVE noBreakLoop(_, _, _)
noBreakLoop(rest, asset, acc) ==
    IF rest = <<>> THEN acc
    ELSE LET a == Head(rest) IN
         IF asset # Empty /\ a.name = asset
         THEN noBreakLoop(Tail(rest), asset, <<Candidate(a)>>)
         ELSE noBreakLoop(Tail(rest), asset, Append(acc, Candidate(a)))

getCandidatesNoBreak(githubAssets, asset) == noBreakLoop(githubAssets, asset, <<>>)

getCandidates(githubAssets, asset) ==
    candidatesLoop(githubAssets, asset, <<>>).candidates

(* Whether getCandidates logs "asset ... not found in release".            *)
warnsNotFound(githubAssets, asset) ==
    asset # Empty /\ ~candidatesLoop(githubAssets, asset, <<>>).foundUserAsset

----------------------------------------------------------------------------
(* github.go: Fetch, GetLatestVersion, GetID.                              *)

(* Whether Fetch looks the release up by tag.                              *)
useTag(g, opts) == Len(g.tag) > 0 \/ Len(opts.Version) > 0

(* fetchTag assigning opts.Version whenever the by-tag branch is taken.    *)
fetchTagAlways(g, opts) ==
    IF useTag(g, opts) THEN opts.Version ELSE g.tag

(* g.tag after the lookup branch of Fetch.                                 *)
fetchTag(g, opts) ==
    IF useTag(g, opts)
    THEN IF Len(opts.Version) > 0 THEN opts.Version ELSE g.tag
    ELSE g.tag

(* The err of Repositories.GetReleaseByTag / GetLatestRelease.             *)
apiError(api) ==
    IF api.kind = "conn" THEN Err("conn", <<"connection refused">>)
    ELSE IF Is2xx(api.status) THEN NoErr
    ELSE APIErr(api.status)

noReleases(g) ==
    Err("fmt", <<"repository ">> \o g.owner \o <<"/">> \o g.repo
               \o <<" does not have releases">>)

(* On the latest branch Fetch reads resp.StatusCode before it looks at     *)
(* err; resp is nil when the call failed without an HTTP response.         *)
lookupPanics(byTag, api) == ~byTag /\ api.kind = "conn"

(* lookupError without the rewrite of the latest branch's 404.             *)
lookupErrorVerbatim(g, byTag, api) == apiError(api)

(* err after the lookup branch of Fetch.                                   *)
lookupError(g, byTag, api) ==
    IF byTag THEN apiError(api)
    ELSE IF api.status = StatusNotFound THEN noReleases(g)
    ELSE apiError(api)

filterOptsOf(opts) ==
    [SkipScoring |-> opts.All, PackagePath |-> opts.PackagePath,
     SkipPathCheck |-> opts.SkipPatchCheck, PackageName |-> opts.PackageName]

(* gf.ExtraHeaders, as a set of <<name, value>> pairs.                     *)
downloadHeaders(g) ==
    {<<Str("Accept"), Str("application/octet-stream")>>}
    \cup (IF g.token # Empty
          THEN {<<Str("Authorization"), <<"token ">> \o g.token>>}
          ELSE {})

(* Fetch(opts) on provider g.  api is the Releases API's answer, pick the  *)
(* candidate FilterAssets chooses (0: it fails, as it does on no           *)
(* candidates), dl what ProcessURL returns (<<>>: it fails).  The result   *)
(* is the provider after the call and the call's record.                   *)
gitHubFetch(g, opts, api, pick, dl) ==
    LET byTag  == useTag(g, opts)
        g1     == [g EXCEPT !.tag = fetchTag(g, opts)]
        c0     == [NoCall EXCEPT !.op = "github.Fetch", !.opts = opts,
                                 !.optsAfter = opts, !.api = api,
                                 !.lookup = IF byTag THEN "byTag" ELSE "latest",
                                 !.lookupTag = IF byTag THEN g1.tag ELSE Empty]
        err    == lookupError(g1, byTag, api)
        cands  == getCandidates(api.assets, g1.asset)
        c1     == [c0 EXCEPT !.warned = warnsNotFound(api.assets, g1.asset),
                             !.filterCalled = TRUE,
                             !.filterOpts = filterOptsOf(opts),
                             !.filterRepo = g1.repo,
                             !.cands = cands]
        c2     == [c1 EXCEPT !.downloadCalled = TRUE,
                             !.downloadURL = cands[pick].URL,
                             !.headers = downloadHeaders(g1)]
    IN  IF lookupPanics(byTag, api)
        THEN [g |-> g1, call |-> [c0 EXCEPT !.outcome = "panic"]]
        ELSE IF err # NoErr
        THEN [g |-> g1, call |-> [c0 EXCEPT !.outcome = "error", !.err = err]]
        ELSE IF pick = 0 \/ pick > Len(cands)
        THEN [g |-> g1, call |-> [c1 EXCEPT !.outcome = "error",
                                            !.err = Err("filter", <<>>)]]
        ELSE IF dl = <<>>
        THEN [g |-> g1, call |-> [c2 EXCEPT !.outcome = "error",
                                            !.err = Err("download", <<>>)]]
        ELSE [g |-> g1,
              call |-> [c2 EXCEPT !.outcome = "file",
                                  !.file = <<[Data |-> dl[1].Source,
                                              Name |-> dl[1].Name,
                                              Version |-> api.tag,
                                              PackagePath |-> dl[1].PackagePath]>>]]

(* GetLatestVersion() on provider g.                                       *)
gitHubGetLatestVersion(g, api) ==
    LET c0 == [NoCall EXCEPT !.op = "github.GetLatestVersion", !.api = api,
                             !.lookup = "latest"]
    IN  IF apiError(api) # NoErr
        THEN [g |-> g, call |-> [c0 EXCEPT !.outcome = "error", !.err = apiError(api)]]
        ELSE [g |-> g, call |-> [c0 EXCEPT !.outcome = "value", !.version = api.tag,
                                           !.url = api.html]]

gitHubGetID(g) ==
    [g |-> g, call |-> [NoCall EXCEPT !.op = "github.GetID", !.outcome = "value",
                                      !.id = Str("github")]]

----------------------------------------------------------------------------
(* generic.go.                                                             *)

IsSpace(a) == a \in {" ", "\n"}

(* strings.TrimSpace: drop the leading and the trailing white space.       *)
RECURSIVE TrimLeft(_)
TrimLeft(s) ==
    IF s # <<>> /\ IsSpace(Head(s)) THEN TrimLeft(Tail(s)) ELSE s

RECURSIVE TrimRight(_)
TrimRight(s) ==
    IF s # <<>> /\ IsSpace(s[Len(s)]) THEN TrimRight(SubSeq(s, 1, Len(s) - 1)) ELSE s

TrimSpace(s) == TrimRight(TrimLeft(s))

(* strings.Replace(s, old, new, 1): the first occurrence only.             *)
ReplaceFirst(s, old, new) ==
    IF Contains(s, old)
    THEN LET i == IndexOf(s, old)
         IN  SubSeq(s, 1, i - 1) \o new \o SubSeq(s, i + 1, Len(s))
    ELSE s

(* strings.ReplaceAll(s, old, new) for a one-atom old.                     *)
RECURSIVE ReplaceAll(_, _, _)
ReplaceAll(s, old, new) ==
    IF s = <<>> THEN <<>>
    ELSE (IF Head(s) = old THEN new ELSE <<Head(s)>>) \o ReplaceAll(Tail(s), old, new)

(* url.Parse(s) followed by String(): a control character is refused       *)
(* ("invalid control character in URL"); a blank of the path is accepted   *)
(* and written back percent-encoded.                                       *)
RECURSIVE escapePath(_)
escapePath(s) ==
    IF s = <<>> THEN <<>>
    ELSE <<(IF Head(s) = " " THEN "%20" ELSE Head(s))>> \o escapePath(Tail(s))

urlParse(s) ==
    IF Contains(s, "\n")
    THEN [ok |-> FALSE, str |-> <<>>]
    ELSE [ok |-> TRUE, str |-> escapePath(s)]

(* filepath.Base.                                                          *)
RECURSIVE stripSlashes(_)
stripSlashes(s) ==
    IF s # <<>> /\ s[Len(s)] = "/" THEN stripSlashes(SubSeq(s, 1, Len(s) - 1)) ELSE s

RECURSIVE afterLastSlash(_)
afterLastSlash(s) ==
    IF Contains(s, "/") THEN afterLastSlash(SubSeq(s, IndexOf(s, "/") + 1, Len(s))) ELSE s

Base(s) ==
    IF s = <<>> THEN Str(".")
    ELSE LET t == afterLastSlash(stripSlashes(s))
         IN  IF t = <<>> THEN Str("/") ELSE t

(* newGeneric(u, versionURL): the result is (Provider, error).             *)
newGeneric(u, versionURL) ==
    IF ~urlParse(versionURL).ok
    THEN [prov |-> <<>>, err |-> Err("fmt", <<"invalid versionURL">>)]
    ELSE [prov |-> <<[url |-> u, versionURL |-> urlParse(versionURL).str]>>,
          err  |-> NoErr]

(* GetLatestVersion() on provider g, the GET answering resp: the triple    *)
(* (version, url, err).  The status of the response is not looked at.      *)
genericLatest(g, resp) ==
    LET version          == TrimSpace(resp.body)
        versionURLString == ReplaceAll(g.url, "{version}", version)
        versionURL       == urlParse(versionURLString)
    IN  IF resp.kind = "conn"
        THEN [version |-> <<>>, url |-> <<>>, err |-> Err("conn", <<"connection refused">>)]
        ELSE IF ~resp.readOK
        THEN [version |-> <<>>, url |-> <<>>, err |-> Err("read", <<"unexpected EOF">>)]
        ELSE IF ~versionURL.ok
        THEN [version |-> <<>>, url |-> <<>>, err |-> Err("url", <<"invalid control character in URL">>)]
        ELSE [version |-> version, url |-> versionURL.str, err |-> NoErr]

genericGetLatestVersion(g, resp) ==
    LET r  == genericLatest(g, resp)
        c0 == [NoCall EXCEPT !.op = "generic.GetLatestVersion", !.http = resp]
    IN  IF r.err # NoErr
        THEN [g |-> g, call |-> [c0 EXCEPT !.outcome = "error", !.err = r.err]]
        ELSE [g |-> g, call |-> [c0 EXCEPT !.outcome = "value", !.version = r.version,
                                           !.url = r.url]]

(* Fetch(opts) on provider g; dl is what ProcessURL returns (<<>>: it      *)
(* fails).                                                                 *)
genericFetch(g, opts, resp, dl) ==
    LET r  == genericLatest(g, resp)
        c0 == [NoCall EXCEPT !.op = "generic.Fetch", !.opts = opts, !.optsAfter = opts,
                             !.http = resp]
        c1 == [c0 EXCEPT !.filterOpts = filterOptsOf(opts),
                         !.downloadCalled = TRUE,
                         !.downloadURL = r.url]
    IN  IF r.err # NoErr
        THEN [g |-> g, call |-> [c0 EXCEPT !.outcome = "error", !.err = r.err]]
        ELSE IF dl = <<>>
        THEN [g |-> g, call |-> [c1 EXCEPT !.outcome = "error",
                                           !.err = Err("download", <<>>)]]
        ELSE [g |-> g,
              call |-> [c1 EXCEPT !.outcome = "file",
                                  !.file = <<[Data |-> dl[1].Source,
                                              Name |-> IF dl[1].Name = Empty
                                                       THEN Base(r.url)
                                                       ELSE dl[1].Name,
                                              Version |-> r.version,
                                              PackagePath |-> dl[1].PackagePath]>>]]

genericGetID(g) ==
    [g |-> g, call |-> [NoCall EXCEPT !.op = "generic.GetID", !.outcome = "value",
                                      !.id = Str("generic")]]

----------------------------------------------------------------------------
(* The inputs explored.                                                    *)

(* URL paths: "/"-joined path elements after the leading separator.        *)
PathElements == {Empty, Str("o"), Str("releases"), Str("download")}

RECURSIVE PathsOf(_)
PathsOf(n) ==
    IF n = 0 THEN {<<>>}
    ELSE LET shorter == PathsOf(n - 1)
         IN  shorter \cup {p \o <<"/">> \o e : p \in shorter, e \in PathElements}

Paths == PathsOf(MaxSegs)

JoinPath(elems) == Concat([i \in 1..Len(elems) |-> <<"/">> \o elems[i]])

(* The URL shapes the providers are fetched from.                          *)
FetchPaths ==
    {JoinPath(<<Str("owner")>>),
     JoinPath(<<Str("owner"), Str("repo")>>),
     JoinPath(<<Str("owner"), Str("repo"), Str("releases"), Str("tag"), Str("v1")>>),
     JoinPath(<<Str("owner"), Str("repo"), Str("releases"), Str("download"), Str("v1"),
                Str("a-linux")>>)}

NoEnv == [GITHUB_AUTH_TOKEN |-> Empty, GITHUB_TOKEN |-> Empty, GHES_BASE_URL |-> Empty,
          GHES_UPLOAD_URL |-> Empty, GHES_AUTH_TOKEN |-> Empty]

GHESEnvs ==
    {[b |-> Empty, u |-> Empty, a |-> Empty],
     [b |-> Str("https://ghes/api"), u |-> Empty, a |-> Str("G")],
     [b |-> Str("https://ghes/api"), u |-> Str("https://ghes/upload"), a |-> Str("G")]}

AllEnvs ==
    {[GITHUB_AUTH_TOKEN |-> at, GITHUB_TOKEN |-> t, GHES_BASE_URL |-> g.b,
      GHES_UPLOAD_URL |-> g.u, GHES_AUTH_TOKEN |-> g.a] :
        at \in {Empty, Str("A")}, t \in {Empty, Str("B")}, g \in GHESEnvs}

(* A partly set GHES configuration is explored with no personal token.     *)
Envs ==
    {e \in AllEnvs :
        (e.GHES_BASE_URL # Empty /\ e.GHES_UPLOAD_URL = Empty)
            => (e.GITHUB_AUTH_TOKEN = Empty /\ e.GITHUB_TOKEN = Empty)}

Versions == {Empty, Str("v1"), Str("v2")}

OptsSet ==
    {[NoOpts EXCEPT !.Version = v] : v \in Versions}
    \cup {[NoOpts EXCEPT !.All = TRUE, !.PackageName = Str("tool")]}

GenericOptsSet == {NoOpts, [NoOpts EXCEPT !.All = TRUE, !.PackageName = Str("tool")]}

AssetNames == {Str("a.tar.gz"), Str("a-linux"), Str("a-darwin")}

(* A release's assets: the i-th asset has its own URL.                     *)
ReleaseAssets(names) ==
    [i \in 1..Len(names) |-> [name |-> names[i], url |-> <<"asset/", ToString(i)>>]]

AssetLists == {ReleaseAssets(ns) : ns \in SeqsUpTo(AssetNames, MaxAssets)}

UserAssets == {Empty, Str("missing")} \cup AssetNames

FetchAssetLists ==
    {ReleaseAssets(<<>>),
     ReleaseAssets(<<Str("a.tar.gz"), Str("a-linux"), Str("a-darwin")>>)}

ReleaseTags == {Str("v1"), Str("v2")}

Release(tag, as) ==
    [kind |-> "http", status |-> 200, tag |-> tag,
     html |-> <<"https://github.com/owner/repo/releases/tag/">> \o tag, assets |-> as]

(* The answers of the Releases API: no response, 404, 500, or a release.   *)
APIs ==
    {[NoAPI EXCEPT !.kind = "conn"],
     [NoAPI EXCEPT !.kind = "http", !.status = StatusNotFound],
     [NoAPI EXCEPT !.kind = "http", !.status = 500]}
    \cup {Release(t, as) : t \in ReleaseTags, as \in FetchAssetLists}

OutFile(name) == [Source |-> Str("bytes"), Name |-> name, PackagePath |-> Empty]

(* What ProcessURL returns: an error, or an OutFile with or without name.  *)
Downloads == {<<>>, <<OutFile(Empty)>>, <<OutFile(Str("tool"))>>}

GitHubDownloads == {<<>>, <<OutFile(Str("tool"))>>}

URLPrefix == <<"https:", "/", "/", "h", "/">>

TemplateAtoms == {"a", "/", "{version}"}

Templates == {URLPrefix \o t : t \in SeqsUpTo(TemplateAtoms, MaxTemplateLen)}

FetchTemplates == {URLPrefix \o <<"{version}", "/", "a">>}

VersionURLs == {URLPrefix \o <<"version">>, URLPrefix \o <<"\n">>}

BodyAtoms == {"1", " ", "\n"}

Bodies == SeqsUpTo(BodyAtoms, MaxBodyLen)

FetchBodies == {<<"1">>, <<>>}

Statuses == {200, StatusNotFound, 500}

(* The answers of the version endpoint: no response, a body that cannot be *)
(* read, or a status and a body.                                           *)
HTTPs(bodies) ==
    {[NoHTTP EXCEPT !.kind = "conn"],
     [NoHTTP EXCEPT !.kind = "http", !.status = 200, !.readOK = FALSE]}
    \cup {[NoHTTP EXCEPT !.kind = "http", !.status = st, !.body = b] :
            st \in Statuses, b \in bodies}

----------------------------------------------------------------------------
(* Actions.                                                                *)

NewGitHub ==
    /\ gh = <<>>
    /\ \E ghesOK \in BOOLEAN :
         \E r \in {newGitHub(path, env, ghesOK)} :
         /\ gh' = r.prov
         /\ last' = [NoCall EXCEPT !.op = "newGitHub",
                                   !.outcome = IF r.err = NoErr THEN "value" ELSE "error",
                                   !.err = r.err]
    /\ UNCHANGED <<path, env, tmpl, vurl, gen, relAssets, userAsset, candidates, httpIn>>

(* A by-tag lookup that answers 200 answers with the release of that tag.  *)
GitHubFetch ==
    /\ gh # <<>>
    /\ \E opts \in OptsSet, api \in APIs, pick \in 0..2, dl \in GitHubDownloads :
         \E r \in {gitHubFetch(gh[1], opts, api, pick, dl)} :
         /\ (r.call.lookup = "byTag" /\ Is2xx(api.status)) => api.tag = r.call.lookupTag
         /\ gh' = <<r.g>>
         /\ last' = r.call
    /\ UNCHANGED <<path, env, tmpl, vurl, gen, relAssets, userAsset, candidates, httpIn>>

GitHubGetLatestVersion ==
    /\ gh # <<>>
    /\ \E api \in APIs :
         \E r \in {gitHubGetLatestVersion(gh[1], api)} :
         /\ gh' = <<r.g>>
         /\ last' = r.call
    /\ UNCHANGED <<path, env, tmpl, vurl, gen, relAssets, userAsset, candidates, httpIn>>

GitHubGetID ==
    /\ gh # <<>>
    /\ \E r \in {gitHubGetID(gh[1])} :
         /\ gh' = <<r.g>>
         /\ last' = r.call
    /\ UNCHANGED <<path, env, tmpl, vurl, gen, relAssets, userAsset, candidates, httpIn>>

NewGeneric ==
    /\ gen = <<>>
    /\ \E r \in {newGeneric(tmpl, vurl)} :
         /\ gen' = r.prov
         /\ last' = [NoCall EXCEPT !.op = "newGeneric",
                                   !.outcome = IF r.err = NoErr THEN "value" ELSE "error",
                                   !.err = r.err]
    /\ UNCHANGED <<path, env, gh, tmpl, vurl, relAssets, userAsset, candidates, httpIn>>

GenericFetch(resps) ==
    /\ gen # <<>>
    /\ \E opts \in GenericOptsSet, resp \in resps, dl \in Downloads :
         \E r \in {genericFetch(gen[1], opts, resp, dl)} :
         /\ gen' = <<r.g>>
         /\ last' = r.call
    /\ UNCHANGED <<path, env, gh, tmpl, vurl, relAssets, userAsset, candidates, httpIn>>

GenericGetLatestVersion(resps) ==
    /\ gen # <<>>
    /\ \E resp \in resps :
         \E r \in {genericGetLatestVersion(gen[1], resp)} :
         /\ gen' = <<r.g>>
         /\ last' = r.call
    /\ UNCHANGED <<path, env, gh, tmpl, vurl, relAssets, userAsset, candidates, httpIn>>

GenericGetID ==
    /\ gen # <<>>
    /\ \E r \in {genericGetID(gen[1])} :
         /\ gen' = <<r.g>>
         /\ last' = r.call
    /\ UNCHANGED <<path, env, gh, tmpl, vurl, relAssets, userAsset, candidates, httpIn>>

GetCandidates ==
    /\ candidates = <<>>
    /\ candidates' = <<getCandidates(relAssets, userAsset)>>
    /\ last' = [NoCall EXCEPT !.op = "getCandidates", !.outcome = "value",
                              !.warned = warnsNotFound(relAssets, userAsset)]
    /\ UNCHANGED <<path, env, gh, tmpl, vurl, gen, relAssets, userAsset, httpIn>>

----------------------------------------------------------------------------
(* Specifications.                                                         *)

Unused ==
    /\ httpIn = NoHTTP
    /\ gh = <<>>
    /\ gen = <<>>
    /\ candidates = <<>>
    /\ last = NoCall

(* Both providers, constructed from the fetch URL shapes and used in any   *)
(* order.                                                                  *)
Init ==
    /\ path \in FetchPaths
    /\ env \in Envs
    /\ tmpl \in FetchTemplates
    /\ vurl \in {URLPrefix \o <<"version">>}
    /\ relAssets = <<>>
    /\ userAsset = Empty
    /\ Unused

Next ==
    \/ NewGitHub
    \/ GitHubFetch
    \/ GitHubGetLatestVersion
    \/ GitHubGetID
    \/ NewGeneric
    \/ GenericFetch(HTTPs(FetchBodies))
    \/ GenericGetLatestVersion(HTTPs(FetchBodies))
    \/ GenericGetID

Spec == Init /\ [][Next]_vars

(* newGitHub on every path of up to MaxSegs elements.                      *)
InitParse ==
    /\ path \in Paths
    /\ env \in {NoEnv}
    /\ tmpl = Empty
    /\ vurl = Empty
    /\ relAssets = <<>>
    /\ userAsset = Empty
    /\ Unused

NextParse == NewGitHub

SpecParse == InitParse /\ [][NextParse]_vars

(* getCandidates on every release of up to MaxAssets assets.               *)
InitCandidates ==
    /\ path = Empty
    /\ env = NoEnv
    /\ tmpl = Empty
    /\ vurl = Empty
    /\ relAssets \in AssetLists
    /\ userAsset \in UserAssets
    /\ Unused

NextCandidates == GetCandidates

SpecCandidates == InitCandidates /\ [][NextCandidates]_vars

(* The generic provider on every template, the version endpoint giving one *)
(* of every answer.                                                        *)
InitGeneric ==
    /\ path = Empty
    /\ env = NoEnv
    /\ tmpl \in Templates
    /\ vurl \in VersionURLs
    /\ relAssets = <<>>
    /\ userAsset = Empty
    /\ httpIn \in HTTPs(Bodies)
    /\ gh = <<>>
    /\ gen = <<>>
    /\ candidates = <<>>
    /\ last = NoCall

NextGeneric ==
    \/ NewGeneric
    \/ GenericFetch({httpIn})
    \/ GenericGetLatestVersion({httpIn})
    \/ GenericGetID

SpecGeneric == InitGeneric /\ [][NextGeneric]_vars

----------------------------------------------------------------------------
(* Properties.                                                             *)

(* The tag newGitHub parsed from the construction URL.                     *)
CtorTag == parseTag(Split(path))

IsGitHubFetch == last.op = "github.Fetch"

(* C1: every Fetch looks the release up by tag if and only if a tag was    *)
(* parsed from the construction URL or this call's FetchOpts.Version is    *)
(* non-empty, the tag being FetchOpts.Version when that is set; every      *)
(* other Fetch looks up the latest release.                                *)
C1_ByTagIffCtorTagOrVersion ==
    IsGitHubFetch =>
        /\ (last.lookup = "byTag") <=> (CtorTag # Empty \/ last.opts.Version # Empty)
        /\ (last.opts.Version # Empty => last.lookupTag = last.opts.Version)
        /\ (CtorTag = Empty /\ last.opts.Version = Empty) => last.lookup = "latest"

HasName(as, n) == \E i \in 1..Len(as) : as[i].name = n

(* C2: with a non-empty userAsset that names an asset of the release, the  *)
(* candidates are that one asset, name and URL, wherever it stands in the  *)
(* release; otherwise they are all the assets, in release order, with      *)
(* their names and URLs.                                                   *)
C2_Candidates ==
    candidates # <<>> =>
        LET c == candidates[1] IN
        IF userAsset # Empty /\ HasName(relAssets, userAsset)
        THEN /\ Len(c) = 1
             /\ c[1].Name = userAsset
             /\ \E i \in 1..Len(relAssets) :
                    relAssets[i].name = c[1].Name /\ relAssets[i].url = c[1].URL
        ELSE /\ Len(c) = Len(relAssets)
             /\ \A i \in 1..Len(relAssets) :
                    c[i].Name = relAssets[i].name /\ c[i].URL = relAssets[i].url

(* The requested asset stands last in a release of three assets.           *)
C2_Witness ==
    /\ candidates # <<>>
    /\ Len(relAssets) = 3
    /\ relAssets[3].name = userAsset
    /\ relAssets[1].name # userAsset /\ relAssets[2].name # userAsset
    /\ Len(candidates[1]) = 1

(* Segment n of the construction path, counted from 0 as the code does.    *)
Seg(n) == Split(path)[n + 1]
NSegs == Len(Split(path))

(* The segments are the "/"-free pieces that joined by "/" give the path.  *)
SegsArePieces ==
    /\ \A i \in 1..NSegs : ~Contains(Split(path)[i], "/")
    /\ path = Concat([i \in 1..NSegs |->
                        IF i = 1 THEN Split(path)[i] ELSE <<"/">> \o Split(path)[i]])

(* C3: fewer than 3 segments is a construction error with no provider;     *)
(* otherwise owner is segment 1, repo segment 2, tag is segment 5 exactly  *)
(* when a segment 5 exists and segment 3 is "releases", and asset is       *)
(* segment 6 exactly when the tag was taken, a segment 6 exists and        *)
(* segment 4 is "download"; tag and asset are empty otherwise.             *)
C3_ParsePath ==
    last.op = "newGitHub" =>
        /\ SegsArePieces
        /\ IF NSegs < 3
           THEN gh = <<>> /\ last.outcome = "error" /\ last.err # NoErr
           ELSE LET tagTaken   == NSegs > 5 /\ Seg(3) = Str("releases")
                    assetTaken == tagTaken /\ NSegs > 6 /\ Seg(4) = Str("download")
                IN  /\ gh # <<>> /\ last.err = NoErr
                    /\ gh[1].owner = Seg(1)
                    /\ gh[1].repo = Seg(2)
                    /\ gh[1].tag = (IF tagTaken THEN Seg(5) ELSE Empty)
                    /\ gh[1].asset = (IF assetTaken THEN Seg(6) ELSE Empty)

(* /o/o/releases/o/o/o: a tag URL with one more element has no asset.      *)
C3_Witness ==
    /\ last.op = "newGitHub"
    /\ gh # <<>>
    /\ NSegs = 7
    /\ Seg(3) = Str("releases")
    /\ Seg(4) # Str("download")
    /\ Seg(6) # Empty
    /\ gh[1].tag = Seg(5) /\ gh[1].tag # Empty
    /\ gh[1].asset = Empty

(* C4: a 404 of the latest-release lookup makes Fetch return no File and   *)
(* the error "repository <owner>/<repo> does not have releases" in place   *)
(* of the API's error; a 404 of the by-tag lookup is returned as the API's *)
(* error.  The latest lookup happens only with no tag on the provider and  *)
(* an empty FetchOpts.Version.                                             *)
C4_NotFound ==
    (IsGitHubFetch /\ last.api.kind = "http" /\ last.api.status = StatusNotFound) =>
        /\ last.outcome = "error"
        /\ last.file = <<>>
        /\ IF last.lookup = "latest"
           THEN /\ CtorTag = Empty /\ last.opts.Version = Empty
                /\ last.err.kind = "fmt"
                /\ last.err.msg = <<"repository ">> \o Seg(1) \o <<"/">> \o Seg(2)
                                  \o <<" does not have releases">>
                /\ last.err # APIErr(StatusNotFound)
           ELSE /\ last.lookup = "byTag"
                /\ last.err = APIErr(StatusNotFound)

C4_Witness ==
    /\ IsGitHubFetch
    /\ last.lookup = "latest"
    /\ last.api.status = StatusNotFound
    /\ last.err.kind = "fmt"
    /\ gh[1].owner = Str("owner") /\ gh[1].repo = Str("repo")

(* C5: a Fetch of either provider that returns a File returns one whose    *)
(* Version is non-empty.                                                   *)
C5_VersionNonEmpty ==
    last.outcome = "file" => last.file[1].Version # Empty

IsGenericLatest == last.op = "generic.GetLatestVersion"

(* v is b without its leading and trailing white space, and nothing else   *)
(* removed.                                                                *)
IsTrimOf(v, b) ==
    /\ \E i \in 1..(Len(b) + 1), j \in 0..Len(b) :
          /\ v = SubSeq(b, i, j)
          /\ \A k \in 1..Len(b) : (k < i \/ k > j) => IsSpace(b[k])
    /\ v # <<>> => (~IsSpace(v[1]) /\ ~IsSpace(v[Len(v)]))

(* t with every "{version}" replaced by v.                                 *)
Substituted(t, v) ==
    Concat([i \in 1..Len(t) |-> IF t[i] = "{version}" THEN v ELSE <<t[i]>>])

(* s with every blank percent-encoded.                                     *)
Encoded(s) == [i \in 1..Len(s) |-> IF s[i] = " " THEN "%20" ELSE s[i]]

(* b holds a line feed between two atoms that are not white space.         *)
InnerControl(b) ==
    \E i, k, j \in 1..Len(b) :
        i < k /\ k < j /\ ~IsSpace(b[i]) /\ b[k] = "\n" /\ ~IsSpace(b[j])

(* C6 as claimed: the version GetLatestVersion returns is the trimmed      *)
(* body, and the URL it returns is the template with every "{version}"     *)
(* replaced by that version.                                               *)
C6_SubstitutedVerbatim ==
    (IsGenericLatest /\ last.outcome = "value") =>
        /\ IsTrimOf(last.version, last.http.body)
        /\ last.url = Substituted(tmpl, last.version)

(* C6 amended: when GetLatestVersion succeeds, the version is the trimmed  *)
(* body and the URL is the template with every "{version}" replaced by     *)
(* that version as url.Parse and String write it back, a blank of the      *)
(* version percent-encoded; it is the substituted template itself when the *)
(* version holds no blank, and the template itself when that holds no      *)
(* placeholder.  A version with a control character inside is an error     *)
(* and no version is returned.                                             *)
C6_SubstitutedAndSerialised ==
    IsGenericLatest =>
        /\ last.outcome = "value" =>
              /\ IsTrimOf(last.version, last.http.body)
              /\ last.url = Encoded(Substituted(tmpl, last.version))
              /\ ~Contains(last.version, " ") =>
                    last.url = Substituted(tmpl, last.version)
              /\ ~Contains(tmpl, "{version}") => last.url = tmpl
        /\ last.outcome = "error" <=>
              \/ last.http.kind = "conn"
              \/ ~last.http.readOK
              \/ InnerControl(last.http.body) /\ Contains(tmpl, "{version}")
        /\ last.outcome = "error" => (last.version = Empty /\ last.url = Empty)

(* The body "1 1": the version keeps its inner blank and the URL encodes   *)
(* it, in a template that holds the placeholder twice.                     *)
C6_Witness ==
    /\ IsGenericLatest
    /\ last.outcome = "value"
    /\ last.version = <<"1", " ", "1">>
    /\ tmpl = URLPrefix \o <<"{version}", "{version}">>
    /\ last.url # Substituted(tmpl, last.version)

(* The personal token: GITHUB_AUTH_TOKEN when set, else GITHUB_TOKEN.      *)
PersonalToken ==
    IF env.GITHUB_AUTH_TOKEN # Empty THEN env.GITHUB_AUTH_TOKEN ELSE env.GITHUB_TOKEN

(* C7: the headers handed to ProcessURL are Accept:                        *)
(* application/octet-stream and, exactly when the personal token is        *)
(* non-empty, Authorization: token <t>; the GHES variables have no part.   *)
C7_DownloadHeaders ==
    (IsGitHubFetch /\ last.downloadCalled) =>
        last.headers =
            {<<Str("Accept"), Str("application/octet-stream")>>}
            \cup (IF PersonalToken # Empty
                  THEN {<<Str("Authorization"), <<"token ">> \o PersonalToken>>}
                  ELSE {})

(* Enterprise mode with no personal token: the download carries no         *)
(* Authorization header.                                                   *)
C7_Witness ==
    /\ IsGitHubFetch
    /\ last.downloadCalled
    /\ gh[1].client.kind = "enterprise"
    /\ env.GHES_AUTH_TOKEN # Empty
    /\ PersonalToken = Empty
    /\ last.headers = {<<Str("Accept"), Str("application/octet-stream")>>}

LookupFailed == last.api.kind = "conn" \/ ~Is2xx(last.api.status)

(* C8: every failure of the release lookup, a connection failure with no   *)
(* HTTP response included, is returned by Fetch as an error with no File,  *)
(* and neither the asset filter nor the download is called.                *)
C8_LookupFailureReturned ==
    (IsGitHubFetch /\ LookupFailed) =>
        /\ last.outcome = "error"
        /\ last.err # NoErr
        /\ last.file = <<>>
        /\ ~last.filterCalled
        /\ ~last.downloadCalled

(* C9: a non-2xx answer of the version endpoint makes GetLatestVersion and *)
(* Fetch of the generic provider return an error: no version is taken      *)
(* from the body and the download is not called.                           *)
C9_Non2xxIsError ==
    (/\ last.op \in {"generic.GetLatestVersion", "generic.Fetch"}
     /\ last.http.kind = "http"
     /\ ~Is2xx(last.http.status)) =>
        /\ last.outcome = "error"
        /\ last.version = Empty
        /\ last.file = <<>>
        /\ ~last.downloadCalled

SameButTag(g, h) == [g EXCEPT !.tag = h.tag] = h

(* What C10 says of one step.                                              *)
C10_Step ==
    /\ gh # <<>> =>
          /\ gh' # <<>>
          /\ SameButTag(gh[1], gh'[1])
          /\ gh'[1].tag # gh[1].tag =>
                /\ last'.op = "github.Fetch"
                /\ last'.opts.Version # Empty
          /\ (last'.op = "github.Fetch" /\ last'.opts.Version # Empty) =>
                gh'[1].tag = last'.opts.Version
    /\ gen # <<>> => gen' = gen
    /\ last'.optsAfter = last'.opts

(* C10: no operation changes a constructed provider's fields or the        *)
(* caller's FetchOpts, except that a GitHub Fetch with a non-empty         *)
(* FetchOpts.Version sets the provider's tag to it; a Fetch with an empty  *)
(* FetchOpts.Version, GetLatestVersion and GetID leave the tag as it was.  *)
C10_Frame == [][C10_Step]_vars

(* A Fetch that failed has replaced the tag of the construction URL.       *)
C10_Witness ==
    /\ IsGitHubFetch
    /\ last.outcome = "error"
    /\ CtorTag # Empty
    /\ gh[1].tag # CtorTag
    /\ gh[1].tag = last.opts.Version
    /\ gh[1].asset = parseAsset(Split(path))
    /\ gh[1].owner = Seg(1)

====
